---- MODULE Spec2Model ----
(***************************************************************************)
(* A model of the DraggableFrame component (src/src/DraggableFrame.tsx).   *)
(*                                                                         *)
(* Each frame instance keeps React state (position, isDragging, anchor),   *)
(* two refs (dragStart, pointerOffset) and one localStorage entry.  The    *)
(* window listeners of every mounted frame receive every mousemove,        *)
(* mouseup, touchmove, touchend, touchcancel and resize event; mousedown   *)
(* and touchstart are delivered to the frame that was pressed.             *)
(*                                                                         *)
(* A handler reads the state of the render that created it: inside one     *)
(* handler call a setState is not visible to the rest of the call.  The    *)
(* component is rendered again, and its listeners are bound again, before  *)
(* the next event is handled.                                              *)
(*                                                                         *)
(* Coordinates are integers (pixels).  A stored fraction x / innerWidth is *)
(* kept as the pair <<numerator, denominator>> in lowest terms.            *)
(***************************************************************************)
EXTENDS Integers, Sequences, FiniteSets, TLC

\* ------------------------------------------------------------------ bounds

\* The pointer moves on a grid of dragThreshold pixels.  Around the place where
\* a frame is mounted it visits the columns up to MaxCol and the rows up to
\* MaxRow; it also visits the left and the right edge of the initial viewport.
MaxCol == 6
MaxRow == 6

\* ------------------------------------------------------- program constants

\* DEFAULT_CONFIG
dragThreshold == 5
anchorMargin == 10

\* defaultPosition = { x: 20, y: 20 }
defaultPosition == [x |-> 20, y |-> 20]

Frames == {"A", "B"}

\* the defaultPosition prop of each frame: A takes the default, B is placed
\* to the right of A
defaultPositionOf(f) ==
  IF f = "A" THEN defaultPosition ELSE [x |-> 30, y |-> 20]

\* frame.offsetWidth, frame.offsetHeight: the size of the frame's content
offsetWidth == 10
offsetHeight == 5

\* window.innerWidth, window.innerHeight: the viewport sizes a resize chooses from
Viewports == {<<40, 30>>, <<60, 45>>}
InitialViewport == <<40, 30>>

\* ----------------------------------------------------------------- helpers

\* a ref or a storage entry that is null holds the empty sequence
null == <<>>

Abs(n) == IF n < 0 THEN -n ELSE n
Min(a, b) == IF a < b THEN a ELSE b
Max(a, b) == IF a > b THEN a ELSE b

RECURSIVE GCD(_, _)
GCD(a, b) == IF b = 0 THEN a ELSE GCD(b, a % b)

\* the number n / d (d > 0) in lowest terms
Frac(n, d) ==
  LET g == GCD(Abs(n), d)
  IN  <<n \div g, d \div g>>

PointerCols ==
  {0, InitialViewport[1] \div dragThreshold}
    \cup (((defaultPosition.x \div dragThreshold) - 1)..MaxCol)
PointerRows == (defaultPosition.y \div dragThreshold)..MaxRow

\* where the pointer can be
Points == {[x |-> dragThreshold * c, y |-> dragThreshold * r] : c \in PointerCols, r \in PointerRows}

\* where the pointer can be while two frames are mounted: on the row of the two
\* frames, from the left edge of A to the right edge of B
MultiPoints ==
  {p \in Points : /\ p.y = defaultPosition.y
                  /\ p.x >= defaultPosition.x
                  /\ p.x <= defaultPositionOf("B").x + dragThreshold}

VARIABLES
  mounted,        \* the ids of the frames that are mounted
  anchored,       \* the anchored prop of each frame
  position,       \* useState<Position>
  isDragging,     \* useState(false)
  dragStart,      \* useRef<Position | null>(null): null or <<point>>
  pointerOffset,  \* useRef<Position>({ x: 0, y: 0 })
  anchor,         \* useState<'left' | 'right'>('left')
  storage,        \* localStorage entry `${storagePrefix}:${id}`: null or <<record>>
  innerWidth,     \* window.innerWidth
  innerHeight,    \* window.innerHeight
  pointer,        \* where the mouse pointer, or the first touch point, is
  touching,       \* whether a touch point is active
  childEvent,     \* what became of the last click or touchend on a frame's content
  dragState,      \* useState<'idle' | 'starting' | 'dragging'>('idle')
  isTouchDevice,  \* useRef(false)
  touchTimeout,   \* touchTimeoutRef.current is a timer that has not fired
  boundDragState  \* the dragState of the render whose effect bound the window listeners

\* the state only the variant with the touch-source flag has
\* (src/unnamed/part_001, lines 45-298)
flagVars == <<dragState, isTouchDevice, touchTimeout, boundDragState>>

vars == <<mounted, anchored, position, isDragging, dragStart, pointerOffset,
          anchor, storage, innerWidth, innerHeight, pointer, touching, childEvent,
          flagVars>>

\* The state of one frame, as the handlers of one render see it.
FrameState(f) ==
  [position |-> position[f], isDragging |-> isDragging[f], dragStart |-> dragStart[f],
   pointerOffset |-> pointerOffset[f], anchor |-> anchor[f], saved |-> storage[f]]

\* ------------------------------------------------------------ Position Store

\* a record that stores both coordinates as fractions of the width
PersistedRecordByWidth(x, y, W, H) ==
  [x |-> Frac(x, W), y |-> Frac(y, W), percentage |-> TRUE]

\* savePosition: the record written for (x, y) on a W x H viewport
PersistedRecord(x, y, W, H) ==
  [x |-> Frac(x, W), y |-> Frac(y, H), percentage |-> TRUE]

savePosition(s, x, y, W, H) ==
  [s EXCEPT !.saved = <<PersistedRecord(x, y, W, H)>>]

\* whether a stored fraction times the viewport size is the pixel value v
ScalesTo(frac, size, v) == frac[1] * size = v * frac[2]

\* What the store can hold for an id.  A text that JSON.parse rejects is the
\* record NotJson; the JSON texts null, 1 and "a" parse to JsonNull, JsonNumber
\* and JsonString; a JSON object is a record of its keys.  The value of a key is
\* a number <<numerator, denominator>>, or a string <<"a">>; a key that is
\* missing reads as undefined.
NotJson == [text |-> "not-json"]
JsonNull == [json |-> "null"]
JsonNumber == [json |-> "number"]
JsonString == [json |-> "string"]
undefined == <<>>
IsNumber(v) == Len(v) = 2
IsObject(parsed) == "text" \notin DOMAIN parsed /\ "json" \notin DOMAIN parsed
Key(parsed, k) == IF k \in DOMAIN parsed THEN parsed[k] ELSE undefined

\* parsed.percentage is truthy
PercentageFlag(parsed) == "percentage" \in DOMAIN parsed /\ parsed.percentage

\* a value of the position state that is not a pair of numbers
NotAPosition(v) == [returned |-> v]

\* whether the useState initializer can produce an integer position from saved
Loadable(saved, W, H) ==
  IF saved = null
    THEN TRUE
  ELSE IF IsObject(saved[1]) /\ PercentageFlag(saved[1])
            /\ IsNumber(Key(saved[1], "x")) /\ IsNumber(Key(saved[1], "y"))
    THEN /\ (saved[1].x[1] * W) % saved[1].x[2] = 0
         /\ (saved[1].y[1] * H) % saved[1].y[2] = 0
  ELSE TRUE

\* a load that does not multiply by the viewport size
LoadPositionUnscaled(saved, default, W, H) ==
  IF saved = null \/ ~IsNumber(Key(saved[1], "x")) \/ ~IsNumber(Key(saved[1], "y"))
    THEN default
    ELSE [x |-> saved[1].x[1] \div saved[1].x[2], y |-> saved[1].y[1] \div saved[1].y[2]]

\* a load that multiplies by the viewport size whether or not the flag is set
LoadPositionScalesLegacy(saved, default, W, H) ==
  IF saved = null \/ ~IsNumber(Key(saved[1], "x")) \/ ~IsNumber(Key(saved[1], "y"))
    THEN default
    ELSE [x |-> (saved[1].x[1] * W) \div saved[1].x[2],
          y |-> (saved[1].y[1] * H) \div saved[1].y[2]]

\* the useState initializer of position
LoadPosition(saved, default, W, H) ==
  IF saved = null
    THEN default                                  \* if (saved) is false
    ELSE
      LET parsed == saved[1]
          x == Key(parsed, "x")
          y == Key(parsed, "y")
      IN  IF "text" \in DOMAIN parsed
            THEN default                          \* JSON.parse throws, catch {}
          ELSE IF "json" \in DOMAIN parsed /\ parsed.json = "null"
            THEN default                          \* parsed.percentage throws, catch {}
          ELSE IF ~IsObject(parsed)
            THEN NotAPosition(parsed)             \* return parsed
          ELSE IF PercentageFlag(parsed)
            THEN IF IsNumber(x) /\ IsNumber(y)
                   THEN [x |-> (x[1] * W) \div x[2], y |-> (y[1] * H) \div y[2]]
                   ELSE NotAPosition(                          \* undefined * W is NaN
                          [x |-> IF IsNumber(x) THEN Frac(x[1] * W, x[2]) ELSE undefined,
                           y |-> IF IsNumber(y) THEN Frac(y[1] * H, y[2]) ELSE undefined])
          ELSE IF IsNumber(x) /\ IsNumber(y)
            THEN [x |-> x[1] \div x[2], y |-> y[1] \div y[2]]   \* return parsed
          ELSE NotAPosition(parsed)               \* return parsed

\* a clamp that applies the lower bound first
ClampLowerFirst(v, max) == Min(max, Max(0, v))

\* Math.max(0, Math.min(v, max))
Clamp(v, max) == Max(0, Min(v, max))

\* frameCenter < window.innerWidth / 2 ? 'left' : 'right'
SideOfCenter(x, W) == IF 2 * x + offsetWidth < W THEN "left" ELSE "right"

\* side === 'left' ? anchorMargin : maxX - anchorMargin
RestingX(side, W) ==
  IF side = "left" THEN anchorMargin ELSE (W - offsetWidth) - anchorMargin

updatePosition(s, anch, x, y, W, H) ==
  LET maxX == W - offsetWidth
      maxY == H - offsetHeight
      clampedX == Clamp(x, maxX)
      newY == Clamp(y, maxY)
      snap == anch /\ ~s.isDragging
      side == SideOfCenter(clampedX, W)
      newX == IF snap THEN RestingX(side, W) ELSE clampedX
      moved == [s EXCEPT !.position = [x |-> newX, y |-> newY],
                         !.anchor = IF snap THEN side ELSE @]
  IN  savePosition(moved, newX, newY, W, H)

\* ----------------------------------------------------------- Drag Controller

handleStart(s, x, y) ==
  [s EXCEPT !.dragStart = <<[x |-> x, y |-> y]>>,
            !.pointerOffset = [x |-> x - s.position.x, y |-> y - s.position.y],
            !.isDragging = FALSE]

\* a threshold test that also starts a drag at exactly dragThreshold pixels
ExceedsThresholdInclusive(dx, dy) == Abs(dx) >= dragThreshold \/ Abs(dy) >= dragThreshold

\* Math.abs(dx) > dragThreshold || Math.abs(dy) > dragThreshold
ExceedsThreshold(dx, dy) == Abs(dx) > dragThreshold \/ Abs(dy) > dragThreshold

handleMove(s, anch, x, y, W, H) ==
  IF s.dragStart = null
    THEN s
    ELSE
      LET dx == x - s.dragStart[1].x
          dy == y - s.dragStart[1].y
          started == ~s.isDragging /\ ExceedsThreshold(dx, dy)
          \* the closure's isDragging decides whether the frame follows the pointer
          moved == IF s.isDragging
                     THEN updatePosition(s, anch, x - s.pointerOffset.x,
                                         y - s.pointerOffset.y, W, H)
                     ELSE s
      IN  [moved EXCEPT !.isDragging = IF started THEN TRUE ELSE @]

\* a release that ends the session only if the frame was dragging
handleEndOfDragOnly(s, anch, W, H) ==
  IF s.isDragging
    THEN [s EXCEPT !.dragStart = null, !.isDragging = FALSE]
    ELSE s

\* a release that snaps an anchored frame whether or not it was dragged
handleEndSnapsAlways(s, anch, W, H) ==
  LET side == SideOfCenter(s.position.x, W)
      finalX == RestingX(side, W)
      snapped == IF anch
                   THEN savePosition([s EXCEPT !.anchor = side, !.position.x = finalX],
                                     finalX, s.position.y, W, H)
                   ELSE s
  IN  [snapped EXCEPT !.dragStart = null, !.isDragging = FALSE]

handleEnd(s, anch, W, H) ==
  LET snap == anch /\ s.isDragging
      side == SideOfCenter(s.position.x, W)
      finalX == RestingX(side, W)
      snapped == IF snap
                   THEN savePosition([s EXCEPT !.anchor = side, !.position.x = finalX],
                                     finalX, s.position.y, W, H)
                   ELSE s
  IN  [snapped EXCEPT !.dragStart = null, !.isDragging = FALSE]

\* handlers that hand every event to the child's own handler
bindChildPassesThrough(dragging) == "invoked"

\* The onClick and the onTouchEnd that bindChild gives a child: with the
\* isDragging of the render that bound them true the event is stopped, else the
\* child's own handler gets it.
bindChild(dragging) == IF dragging THEN "intercepted" ELSE "invoked"

\* mouseup, touchend and touchcancel are each bound on window and on document
\* (capture): one event runs handleEnd twice, the second time after the render
\* the first one caused.
EndTwice(s, anch, W, H) == handleEnd(handleEnd(s, anch, W, H), anch, W, H)

onTouchMove(s, anch, x, y, W, H) ==
  IF s.dragStart # null THEN handleMove(s, anch, x, y, W, H) ELSE s

\* a resize handler that also brings a frame that is not anchored back inside
\* the new viewport
onResizeReclamps(s, anch, W, H) ==
  IF anch
    THEN LET side == SideOfCenter(s.position.x, W)
             newX == RestingX(side, W)
         IN  savePosition([s EXCEPT !.position.x = newX], newX, s.position.y, W, H)
    ELSE [s EXCEPT !.position = [x |-> Clamp(s.position.x, W - offsetWidth),
                                 y |-> Clamp(s.position.y, H - offsetHeight)]]

onResize(s, anch, W, H) ==
  IF anch
    THEN LET side == SideOfCenter(s.position.x, W)
             newX == RestingX(side, W)
         IN  savePosition([s EXCEPT !.position.x = newX], newX, s.position.y, W, H)
    ELSE s

\* the state of a frame right after it is mounted
MountState(saved, default, W, H) ==
  [position |-> LoadPosition(saved, default, W, H), isDragging |-> FALSE,
   dragStart |-> null, pointerOffset |-> [x |-> 0, y |-> 0], anchor |-> "left",
   saved |-> saved]

\* ------------------------------------------------------------------ actions

\* the pointer is over the frame's bounding box
InRect(f, p) ==
  /\ position[f].x <= p.x /\ p.x < position[f].x + offsetWidth
  /\ position[f].y <= p.y /\ p.y < position[f].y + offsetHeight

\* every frame's state after the event; new(f) is the state of a mounted frame
Apply(new(_)) ==
  /\ position' = [f \in Frames |-> IF f \in mounted THEN new(f).position ELSE position[f]]
  /\ isDragging' = [f \in Frames |-> IF f \in mounted THEN new(f).isDragging ELSE isDragging[f]]
  /\ dragStart' = [f \in Frames |-> IF f \in mounted THEN new(f).dragStart ELSE dragStart[f]]
  /\ pointerOffset' = [f \in Frames |-> IF f \in mounted THEN new(f).pointerOffset ELSE pointerOffset[f]]
  /\ anchor' = [f \in Frames |-> IF f \in mounted THEN new(f).anchor ELSE anchor[f]]
  /\ storage' = [f \in Frames |-> IF f \in mounted THEN new(f).saved ELSE storage[f]]

\* the frame the pointer presses: no frame rendered after f covers f at p
Pressed(f, p) ==
  /\ f \in mounted
  /\ InRect(f, p)
  /\ f = "A" => ~("B" \in mounted /\ InRect("B", p))

\* handleMouseDown on frame f (button 0), the pointer being over it.  The mouse
\* is not used while a finger is down: pointer is then the first touch point.
MouseDown(f) ==
  /\ ~touching
  /\ Pressed(f, pointer)
  /\ LET new(g) == IF g = f THEN handleStart(FrameState(g), pointer.x, pointer.y)
                            ELSE FrameState(g)
     IN  Apply(new)
  /\ UNCHANGED <<flagVars, childEvent, mounted, anchored, innerWidth, innerHeight, pointer, touching>>

\* onMouseMove of every mounted frame
MouseMove(x, y) ==
  /\ ~touching
  /\ pointer' = [x |-> x, y |-> y]
  /\ LET new(g) == handleMove(FrameState(g), anchored[g], x, y, innerWidth, innerHeight)
     IN  Apply(new)
  /\ UNCHANGED <<flagVars, childEvent, mounted, anchored, innerWidth, innerHeight, touching>>

\* onMouseUp of every mounted frame
MouseUp ==
  /\ ~touching
  /\ LET new(g) == EndTwice(FrameState(g), anchored[g], innerWidth, innerHeight)
     IN  Apply(new)
  /\ UNCHANGED <<flagVars, childEvent, mounted, anchored, innerWidth, innerHeight, pointer, touching>>

\* handleTouchStart on frame f, no finger being down: e.touches[0] is the finger
\* that lands on the frame at (x, y)
TouchStart(f, x, y) ==
  /\ ~touching
  /\ Pressed(f, [x |-> x, y |-> y])
  /\ pointer' = [x |-> x, y |-> y]
  /\ touching' = TRUE
  /\ LET new(g) == IF g = f THEN handleStart(FrameState(g), x, y) ELSE FrameState(g)
     IN  Apply(new)
  /\ UNCHANGED <<flagVars, childEvent, mounted, anchored, innerWidth, innerHeight>>

\* handleTouchStart on frame f, a finger being down already: another finger lands
\* on the frame at (x, y), and e.touches[0] is still the first finger
TouchStartNext(f, x, y) ==
  /\ touching
  /\ Pressed(f, [x |-> x, y |-> y])
  /\ LET new(g) == IF g = f THEN handleStart(FrameState(g), pointer.x, pointer.y)
                            ELSE FrameState(g)
     IN  Apply(new)
  /\ UNCHANGED <<flagVars, childEvent, mounted, anchored, innerWidth, innerHeight, pointer, touching>>

\* onTouchMove of every mounted frame: e.touches[0] is at (x, y)
TouchMove(x, y) ==
  /\ touching
  /\ pointer' = [x |-> x, y |-> y]
  /\ LET new(g) == onTouchMove(FrameState(g), anchored[g], x, y, innerWidth, innerHeight)
     IN  Apply(new)
  /\ UNCHANGED <<flagVars, childEvent, mounted, anchored, innerWidth, innerHeight, touching>>

\* onTouchEnd of every mounted frame; last: no finger stays down
TouchEnd(last) ==
  /\ touching
  /\ touching' = ~last
  /\ LET new(g) == EndTwice(FrameState(g), anchored[g], innerWidth, innerHeight)
     IN  Apply(new)
  /\ UNCHANGED <<flagVars, childEvent, mounted, anchored, innerWidth, innerHeight, pointer>>

\* a cancel that puts the frame back where the session found it
TouchCancelReverts(last) ==
  /\ touching
  /\ touching' = ~last
  /\ LET new(g) ==
           LET s == FrameState(g)
           IN  [s EXCEPT !.position = IF s.dragStart = null
                                        THEN @
                                        ELSE [x |-> s.dragStart[1].x - s.pointerOffset.x,
                                              y |-> s.dragStart[1].y - s.pointerOffset.y],
                         !.dragStart = null,
                         !.isDragging = FALSE]
     IN  Apply(new)
  /\ UNCHANGED <<flagVars, childEvent, mounted, anchored, innerWidth, innerHeight, pointer>>

\* onTouchCancel of every mounted frame
TouchCancel(last) ==
  /\ touching
  /\ touching' = ~last
  /\ LET new(g) == EndTwice(FrameState(g), anchored[g], innerWidth, innerHeight)
     IN  Apply(new)
  /\ UNCHANGED <<flagVars, childEvent, mounted, anchored, innerWidth, innerHeight, pointer>>

\* A click reaches the content of frame f (from the keyboard, from a script, or
\* after a press and release without a drag): the onClick bound by the last
\* render runs.
ChildClick(f) ==
  /\ f \in mounted
  /\ childEvent' = bindChild(isDragging[f])
  /\ UNCHANGED <<flagVars, mounted, anchored, position, isDragging, dragStart, pointerOffset,
                 anchor, storage, innerWidth, innerHeight, pointer, touching>>

\* The finger that pressed the content of frame f is lifted.  The touchend goes
\* through the capture listeners of window and document first (onTouchEnd of
\* every mounted frame), the frames are rendered, and then the onTouchEnd bound
\* to the content of f runs.
ChildTouchEnd(f, last) ==
  /\ touching
  /\ f \in mounted
  /\ dragStart[f] # null
  /\ touching' = ~last
  /\ LET new(g) == EndTwice(FrameState(g), anchored[g], innerWidth, innerHeight)
     IN  /\ Apply(new)
         /\ childEvent' = bindChild(new(f).isDragging)
  /\ UNCHANGED <<flagVars, mounted, anchored, innerWidth, innerHeight, pointer>>

\* the window is resized to W x H: onResize of every mounted frame
Resize(W, H) ==
  /\ <<W, H>> # <<innerWidth, innerHeight>>
  /\ innerWidth' = W
  /\ innerHeight' = H
  /\ LET new(g) == onResize(FrameState(g), anchored[g], W, H)
     IN  Apply(new)
  /\ UNCHANGED <<flagVars, childEvent, mounted, anchored, pointer, touching>>

\* frame f is unmounted and mounted again with the same id
Remount(f) ==
  /\ f \in mounted
  /\ Loadable(storage[f], innerWidth, innerHeight)
  /\ LET new(g) == IF g = f THEN MountState(storage[g], defaultPositionOf(g), innerWidth, innerHeight)
                            ELSE FrameState(g)
     IN  Apply(new)
  /\ UNCHANGED <<flagVars, childEvent, mounted, anchored, innerWidth, innerHeight, pointer, touching>>

\* another writer (an earlier version of the component, another page of the
\* origin) leaves saved under the key of frame f
StoreWrite(f, saved) ==
  /\ f \in mounted
  /\ storage[f] # saved
  /\ storage' = [storage EXCEPT ![f] = saved]
  /\ UNCHANGED <<flagVars, childEvent, mounted, anchored, position, isDragging, dragStart, pointerOffset,
                 anchor, innerWidth, innerHeight, pointer, touching>>

\* ------------------------------------- the variant with the touch-source flag

\* The variant of src/unnamed/part_001 (lines 45-298) keeps a dragState, a ref
\* isTouchDevice that handleStart sets to the source of the press, and a timer
\* of 150 ms, set by handleEnd, that sets the ref back to false.  Its window
\* listeners are bound by an effect with the dependencies [handleMove,
\* handleEnd, dragState]: they see the dragState of the render that bound them,
\* and the cleanup of the effect clears the timer.  React runs the effect of a
\* render some time after the render: inside the handler that set the state
\* (a setState from a window listener renders synchronously before React 18),
\* or later, and before the next input event is handled; a timer that is due
\* can run before it.

FlagFrame == "A"

FlagInit ==
  /\ dragState = "idle"
  /\ isTouchDevice = FALSE
  /\ touchTimeout = FALSE
  /\ boundDragState = "idle"

\* the listeners on window are those of the last render
Settled == boundDragState = dragState

\* the state of the frame as a handler finds it
FlagState ==
  [frame |-> FrameState(FlagFrame), dragState |-> dragState,
   isTouchDevice |-> isTouchDevice, touchTimeout |-> touchTimeout]

ApplyFlag(new) ==
  /\ Apply(LAMBDA g : new.frame)
  /\ dragState' = new.dragState
  /\ isTouchDevice' = new.isTouchDevice
  /\ touchTimeout' = new.touchTimeout

FlagUpdatePosition(s, x, y, W, H) ==
  LET newX == Clamp(x, W - offsetWidth)
      newY == Clamp(y, H - offsetHeight)
  IN  [s EXCEPT !.frame = savePosition([@ EXCEPT !.position = [x |-> newX, y |-> newY]],
                                       newX, newY, W, H)]

FlagHandleStart(s, x, y, isTouch) ==
  [s EXCEPT !.isTouchDevice = isTouch,
            !.frame.dragStart = <<[x |-> x, y |-> y]>>,
            !.frame.pointerOffset = [x |-> x - s.frame.position.x, y |-> y - s.frame.position.y],
            !.dragState = "starting",
            !.frame.isDragging = FALSE]

\* ds is the dragState of the closure
FlagHandleMove(s, ds, x, y, W, H) ==
  IF s.frame.dragStart = null
    THEN s
    ELSE
      LET dx == x - s.frame.dragStart[1].x
          dy == y - s.frame.dragStart[1].y
      IN  CASE ds = "starting" ->
                 IF ExceedsThreshold(dx, dy)
                   THEN [s EXCEPT !.dragState = "dragging", !.frame.isDragging = TRUE]
                   ELSE s
            [] ds = "dragging" ->
                 FlagUpdatePosition(s, x - s.frame.pointerOffset.x,
                                    y - s.frame.pointerOffset.y, W, H)
            [] OTHER -> s

FlagHandleEnd(s, ds, anch, x, y, W, H) ==
  LET side == IF 2 * x < W THEN "left" ELSE "right"
      finalX == RestingX(side, W)
      snapped == IF ds = "dragging" /\ anch
                   THEN FlagUpdatePosition([s EXCEPT !.frame.anchor = side],
                                           finalX, y - s.frame.pointerOffset.y, W, H)
                   ELSE s
  IN  [snapped EXCEPT !.frame.dragStart = null,
                      !.dragState = "idle",
                      !.frame.isDragging = FALSE,
                      !.touchTimeout = IF s.isTouchDevice THEN TRUE ELSE @]

\* handleMouseDown (button 0) on the frame
FlagMouseDown ==
  /\ Settled
  /\ ~touching
  /\ Pressed(FlagFrame, pointer)
  /\ ApplyFlag(FlagHandleStart(FlagState, pointer.x, pointer.y, FALSE))
  /\ UNCHANGED <<boundDragState, childEvent, mounted, anchored, innerWidth, innerHeight,
                 pointer, touching>>

\* onMouseMove
FlagMouseMove(x, y) ==
  /\ Settled
  /\ ~touching
  /\ pointer' = [x |-> x, y |-> y]
  /\ ApplyFlag(IF ~isTouchDevice
                 THEN FlagHandleMove(FlagState, boundDragState, x, y, innerWidth, innerHeight)
                 ELSE FlagState)
  /\ UNCHANGED <<boundDragState, childEvent, mounted, anchored, innerWidth, innerHeight,
                 touching>>

\* the listeners after an event whose handler called handleEnd; flushed: React
\* rendered inside the handler and the effect of the new render has run
BoundAfter(flushed) == IF flushed THEN "idle" ELSE boundDragState

\* onMouseUp
FlagMouseUp(flushed) ==
  /\ Settled
  /\ ~touching
  /\ IF ~isTouchDevice
       THEN /\ ApplyFlag(FlagHandleEnd(FlagState, boundDragState, anchored[FlagFrame],
                                       pointer.x, pointer.y, innerWidth, innerHeight))
            /\ boundDragState' = BoundAfter(flushed)
       ELSE /\ ApplyFlag(FlagState)
            /\ UNCHANGED boundDragState
  /\ UNCHANGED <<childEvent, mounted, anchored, innerWidth, innerHeight, pointer, touching>>

\* handleTouchStart: a finger lands on the frame at (x, y)
FlagTouchStart(x, y) ==
  /\ Settled
  /\ ~touching
  /\ Pressed(FlagFrame, [x |-> x, y |-> y])
  /\ pointer' = [x |-> x, y |-> y]
  /\ touching' = TRUE
  /\ ApplyFlag(FlagHandleStart(FlagState, x, y, TRUE))
  /\ UNCHANGED <<boundDragState, childEvent, mounted, anchored, innerWidth, innerHeight>>

\* onTouchMove: e.touches[0] is at (x, y)
FlagTouchMove(x, y) ==
  /\ Settled
  /\ touching
  /\ pointer' = [x |-> x, y |-> y]
  /\ ApplyFlag(IF isTouchDevice /\ boundDragState # "idle"
                 THEN FlagHandleMove(FlagState, boundDragState, x, y, innerWidth, innerHeight)
                 ELSE FlagState)
  /\ UNCHANGED <<boundDragState, childEvent, mounted, anchored, innerWidth, innerHeight,
                 touching>>

\* onTouchEnd and onTouchCancel: the finger is lifted where it was last
FlagTouchEnd(flushed) ==
  /\ Settled
  /\ touching
  /\ touching' = FALSE
  /\ IF isTouchDevice
       THEN /\ ApplyFlag(FlagHandleEnd(FlagState, boundDragState, anchored[FlagFrame],
                                       pointer.x, pointer.y, innerWidth, innerHeight))
            /\ boundDragState' = BoundAfter(flushed)
       ELSE /\ ApplyFlag(FlagState)
            /\ UNCHANGED boundDragState
  /\ UNCHANGED <<childEvent, mounted, anchored, innerWidth, innerHeight, pointer>>

\* the callback of the timer handleEnd set
TimerFires ==
  /\ touchTimeout
  /\ isTouchDevice' = FALSE
  /\ touchTimeout' = FALSE
  /\ UNCHANGED <<dragState, boundDragState, childEvent, mounted, anchored, position,
                 isDragging, dragStart, pointerOffset, anchor, storage, innerWidth,
                 innerHeight, pointer, touching>>

\* the effect runs for a render with another dragState: the cleanup of the
\* previous one removes its listeners and clears the timer, then the listeners
\* of the new render are bound
EffectRuns ==
  /\ boundDragState # dragState
  /\ touchTimeout' = FALSE
  /\ boundDragState' = dragState
  /\ UNCHANGED <<dragState, isTouchDevice, childEvent, mounted, anchored, position,
                 isDragging, dragStart, pointerOffset, anchor, storage, innerWidth,
                 innerHeight, pointer, touching>>

\* ------------------------------------------------------------ specifications

InitFrames(ids) ==
  /\ mounted = ids
  /\ anchored \in {a \in [Frames -> BOOLEAN] : \A f \in Frames \ ids : ~a[f]}
  /\ innerWidth = InitialViewport[1]
  /\ innerHeight = InitialViewport[2]
  /\ storage = [f \in Frames |-> null]
  /\ position = [f \in Frames |-> MountState(null, defaultPositionOf(f), innerWidth, innerHeight).position]
  /\ isDragging = [f \in Frames |-> FALSE]
  /\ dragStart = [f \in Frames |-> null]
  /\ pointerOffset = [f \in Frames |-> [x |-> 0, y |-> 0]]
  /\ anchor = [f \in Frames |-> "left"]
  /\ pointer = [x |-> 0, y |-> 0]
  /\ touching = FALSE
  /\ childEvent = "none"
  /\ FlagInit

\* one frame on a viewport that is resized
Init == InitFrames({"A"})

Next ==
  \/ \E f \in Frames : MouseDown(f)
  \/ \E p \in Points : MouseMove(p.x, p.y)
  \/ MouseUp
  \/ \E f \in Frames, p \in Points : TouchStart(f, p.x, p.y)
  \/ \E p \in Points : TouchMove(p.x, p.y)
  \/ TouchEnd(TRUE)
  \/ TouchCancel(TRUE)
  \/ \E v \in Viewports : Resize(v[1], v[2])
  \/ \E f \in Frames : Remount(f)

Spec == Init /\ [][Next]_vars

\* two frames, pressed by the mouse or by several fingers, on a fixed viewport
InitMulti == InitFrames(Frames)

NextMulti ==
  \/ \E f \in Frames : MouseDown(f)
  \/ \E p \in MultiPoints : MouseMove(p.x, p.y)
  \/ MouseUp
  \/ \E f \in Frames, p \in MultiPoints : TouchStart(f, p.x, p.y)
  \/ \E f \in Frames, p \in MultiPoints : TouchStartNext(f, p.x, p.y)
  \/ \E p \in MultiPoints : TouchMove(p.x, p.y)
  \/ \E last \in BOOLEAN : TouchEnd(last)
  \/ \E last \in BOOLEAN : TouchCancel(last)

SpecMulti == InitMulti /\ [][NextMulti]_vars

\* two frames pressed by fingers only, each finger landing on one frame, on a
\* fixed viewport
NextTouches ==
  \/ \E f \in Frames, p \in MultiPoints : TouchStart(f, p.x, p.y)
  \/ \E f \in Frames, p \in MultiPoints : TouchStartNext(f, p.x, p.y)
  \/ \E p \in MultiPoints : TouchMove(p.x, p.y)
  \/ \E last \in BOOLEAN : TouchEnd(last)

SpecTouches == InitMulti /\ [][NextTouches]_vars

\* one frame, dragged by a finger, on a window that can also be made smaller
\* than the place the frame is at
SmallViewport == <<20, 15>>

NextShrink ==
  \/ \E f \in Frames, p \in Points : TouchStart(f, p.x, p.y)
  \/ \E p \in Points : TouchMove(p.x, p.y)
  \/ TouchEnd(TRUE)
  \/ \E v \in Viewports \cup {SmallViewport} : Resize(v[1], v[2])

SpecShrink == Init /\ [][NextShrink]_vars

\* one frame, dragged by a finger, on a window that can be made smaller than the
\* frame itself
TinyViewport == <<5, 3>>

NextClamp ==
  \/ \E f \in Frames, p \in Points : TouchStart(f, p.x, p.y)
  \/ \E p \in Points : TouchMove(p.x, p.y)
  \/ TouchEnd(TRUE)
  \/ \E v \in {InitialViewport, TinyViewport} : Resize(v[1], v[2])

SpecClamp == Init /\ [][NextClamp]_vars

\* one frame whose content takes clicks and touchends, on a fixed viewport
NextContent ==
  \/ \E f \in Frames : MouseDown(f)
  \/ \E p \in MultiPoints : MouseMove(p.x, p.y)
  \/ MouseUp
  \/ \E f \in Frames, p \in MultiPoints : TouchStart(f, p.x, p.y)
  \/ \E p \in MultiPoints : TouchMove(p.x, p.y)
  \/ TouchEnd(TRUE)
  \/ \E f \in Frames : ChildClick(f)
  \/ \E f \in Frames : ChildTouchEnd(f, TRUE)

SpecContent == Init /\ [][NextContent]_vars

\* one frame of the variant with the touch-source flag, on a fixed viewport
NextFlag ==
  \/ FlagMouseDown
  \/ \E p \in Points : FlagMouseMove(p.x, p.y)
  \/ \E flushed \in BOOLEAN : FlagMouseUp(flushed)
  \/ \E p \in Points : FlagTouchStart(p.x, p.y)
  \/ \E p \in Points : FlagTouchMove(p.x, p.y)
  \/ \E flushed \in BOOLEAN : FlagTouchEnd(flushed)
  \/ TimerFires
  \/ EffectRuns

SpecFlag == Init /\ [][NextFlag]_vars

\* what a mount can find in the store: nothing, a text that is not JSON, JSON
\* that is not an object, objects without a numeric x or y, records of the
\* earlier format (pixels, no percentage flag, or the flag false), and records
\* savePosition writes
MalformedValues ==
  {NotJson, JsonNull, JsonNumber, JsonString,
   [x |-> <<20, 1>>],
   [x |-> <<"a">>, y |-> <<20, 1>>],
   [y |-> <<1, 2>>, percentage |-> TRUE]}
LegacyRecords ==
  {[x |-> <<p.x, 1>>, y |-> <<p.y, 1>>] : p \in Points}
    \cup {[x |-> <<p.x, 1>>, y |-> <<p.y, 1>>, percentage |-> FALSE] : p \in MultiPoints}
WrittenRecords ==
  {PersistedRecord(p.x, p.y, v[1], v[2]) : p \in MultiPoints, v \in Viewports}
StoredValues ==
  {null} \cup {<<v>> : v \in MalformedValues \cup LegacyRecords \cup WrittenRecords}

\* one frame that is not anchored, mounted on what the store holds
InitStore ==
  /\ mounted = {"A"}
  /\ anchored = [f \in Frames |-> FALSE]
  /\ \E v \in Viewports : innerWidth = v[1] /\ innerHeight = v[2]
  /\ storage \in {s \in [Frames -> StoredValues] :
                    s["B"] = null /\ Loadable(s["A"], innerWidth, innerHeight)}
  /\ position = [f \in Frames |->
                   MountState(storage[f], defaultPositionOf(f), innerWidth, innerHeight).position]
  /\ isDragging = [f \in Frames |-> FALSE]
  /\ dragStart = [f \in Frames |-> null]
  /\ pointerOffset = [f \in Frames |-> [x |-> 0, y |-> 0]]
  /\ anchor = [f \in Frames |-> "left"]
  /\ pointer = [x |-> 0, y |-> 0]
  /\ touching = FALSE
  /\ childEvent = "none"
  /\ FlagInit

NextStore ==
  \/ \E f \in Frames, saved \in StoredValues : StoreWrite(f, saved)
  \/ \E v \in Viewports : Resize(v[1], v[2])
  \/ \E f \in Frames : Remount(f)

SpecStore == InitStore /\ [][NextStore]_vars

\* ------------------------------------------------------------------- claims

\* Idle -> Pending -> Dragging -> Idle, read from the refs and the state
Idle(f) == dragStart[f] = null /\ ~isDragging[f]
Pending(f) == dragStart[f] # null /\ ~isDragging[f]
Dragging(f) == isDragging[f]

\* the step is a pointer-move (to the place the pointer is at after it), a
\* pointer-up (or touch-end, touch-cancel), a pointer-down on frame f
MoveEvent == MouseMove(pointer'.x, pointer'.y) \/ TouchMove(pointer'.x, pointer'.y)
EndEvent == MouseUp \/ \E last \in BOOLEAN : TouchEnd(last) \/ TouchCancel(last)
StartEvent(f) ==
  \/ MouseDown(f)
  \/ TouchStart(f, pointer'.x, pointer'.y)
  \/ \E p \in Points : TouchStartNext(f, p.x, p.y)
WindowResized == innerWidth' # innerWidth \/ innerHeight' # innerHeight

\* max(|dx|, |dy|) of point p from the session's startPointer
Displacement(f, p) ==
  Max(Abs(p.x - dragStart[f][1].x), Abs(p.y - dragStart[f][1].y))

\* clamp((x, y) - pointerOffsetWithinFrame) on the current viewport
ClampedCandidate(f, p) ==
  [x |-> Max(0, Min(p.x - pointerOffset[f].x, innerWidth - offsetWidth)),
   y |-> Max(0, Min(p.y - pointerOffset[f].y, innerHeight - offsetHeight))]

\* C1: in every reachable state the frame's bounding box is inside the viewport:
\* 0 <= x <= innerWidth - offsetWidth and 0 <= y <= innerHeight - offsetHeight
\* (x = 0, y = 0 when the frame is larger than the viewport).
C1_PositionInsideViewport ==
  \A f \in mounted :
    /\ position[f].x = Max(0, Min(position[f].x, innerWidth - offsetWidth))
    /\ position[f].y = Max(0, Min(position[f].y, innerHeight - offsetHeight))

\* C2: at most one of the co-mounted frames is Dragging at any time.
C2_AtMostOneDragging ==
  Cardinality({f \in mounted : Dragging(f)}) <= 1

\* C3: while frame f is Dragging, a pointer-down or touch-start on another
\* frame g is a no-op for g: its session is not recorded and its drag state
\* does not change.
C3_PressIgnoredWhileOtherDrags ==
  [][\A f \in mounted, g \in mounted :
       (f # g /\ Dragging(f) /\ StartEvent(g))
         => /\ dragStart'[g] = dragStart[g]
            /\ pointerOffset'[g] = pointerOffset[g]
            /\ isDragging'[g] = isDragging[g]]_vars

\* C4: while frame f is Dragging, a pointer-move or pointer-up leaves the
\* position, the drag state and the persisted record of every other frame g
\* unchanged.
C4_OtherFrameUntouched ==
  [][\A f \in mounted, g \in mounted :
       (f # g /\ Dragging(f) /\ (MoveEvent \/ EndEvent))
         => /\ position'[g] = position[g]
            /\ isDragging'[g] = isDragging[g]
            /\ dragStart'[g] = dragStart[g]
            /\ storage'[g] = storage[g]]_vars

\* C5: a pointer-move in Pending makes the frame Dragging exactly when
\* max(|dx|, |dy|) from startPointer is greater than dragThreshold; nothing else
\* makes a frame Dragging; and a Dragging frame stays Dragging until its session
\* ends or a new one starts, so the transition happens once per session.
C5_ThresholdStartsDragOnce ==
  [][\A f \in mounted :
       /\ (Pending(f) /\ MoveEvent)
            => (isDragging'[f] <=> Displacement(f, pointer') > dragThreshold)
       /\ (~isDragging[f] /\ isDragging'[f])
            => (MoveEvent /\ Pending(f) /\ Displacement(f, pointer') > dragThreshold)
       /\ (isDragging[f] /\ ~isDragging'[f])
            => (dragStart'[f] = null \/ StartEvent(f))]_vars

\* C5 witness: a frame that became Dragging by a move beyond the threshold
C5_Witness ==
  \E f \in mounted :
    Dragging(f) /\ dragStart[f] # null /\ Displacement(f, pointer) > dragThreshold

\* C6: after every pointer-move of a session whose displacement exceeds the
\* threshold at this move or exceeded it at an earlier one, the position is
\* clamp((x, y) - pointerOffsetWithinFrame).
C6_MoveFollowsPointer ==
  [][\A f \in mounted :
       (/\ dragStart[f] # null
        /\ (Dragging(f) \/ Displacement(f, pointer') > dragThreshold)
        /\ MoveEvent)
         => position'[f] = ClampedCandidate(f, pointer')]_vars

\* C7: the persisted record of a frame is not written while the frame is Pending
\* or Dragging: a step other than a resize that starts and ends inside a session
\* leaves the record as it was.
C7_NoWriteDuringSession ==
  [][\A f \in mounted :
       (dragStart[f] # null /\ dragStart'[f] # null /\ ~WindowResized)
         => storage'[f] = storage[f]]_vars

\* C8: after the pointer-up that ends a drag there is a persisted record, and
\* decoded on the current viewport it is the frame's final position.
C8_ReleasePersistsFinalPosition ==
  [][\A f \in mounted :
       (Dragging(f) /\ EndEvent)
         => /\ storage'[f] # null
            /\ ScalesTo(storage'[f][1].x, innerWidth, position'[f].x)
            /\ ScalesTo(storage'[f][1].y, innerHeight, position'[f].y)]_vars

\* C9: when a drag ends on an anchored frame the side is Left if the release
\* pointer's x is less than innerWidth / 2 and Right otherwise.  (Stated for a
\* frame that has followed the pointer to the place of the release.)
C9_SideFromReleasePointer ==
  [][\A f \in mounted :
       (/\ anchored[f] /\ Dragging(f)
        /\ position[f] = ClampedCandidate(f, pointer)
        /\ EndEvent)
         => anchor'[f] = (IF 2 * pointer.x < innerWidth THEN "left" ELSE "right")]_vars

\* C10: after a drag ends on an anchored frame, x is anchorMargin on the left
\* side and innerWidth - offsetWidth - anchorMargin on the right side, and y is
\* the clamped y the drag computes from the release pointer.
C10_RestingPosition ==
  [][\A f \in mounted :
       (anchored[f] /\ Dragging(f) /\ EndEvent)
         => /\ position'[f].x = (IF anchor'[f] = "left"
                                   THEN anchorMargin
                                   ELSE innerWidth - offsetWidth - anchorMargin)
            /\ position'[f].y = ClampedCandidate(f, pointer).y]_vars

\* C11: a resize of an anchored frame that is at rest on its side and not
\* dragging keeps the side, puts x at the resting x of that side on the new
\* viewport width, and persists that position.
C11_ResizeKeepsSide ==
  [][\A f \in mounted :
       (/\ anchored[f] /\ ~Dragging(f)
        /\ position[f].x = RestingX(anchor[f], innerWidth)
        /\ WindowResized)
         => /\ anchor'[f] = anchor[f]
            /\ position'[f].x = RestingX(anchor[f], innerWidth')
            /\ storage'[f] # null
            /\ ScalesTo(storage'[f][1].x, innerWidth', position'[f].x)
            /\ ScalesTo(storage'[f][1].y, innerHeight', position'[f].y)]_vars

\* the stored value is an object with a numeric x and a numeric y
WellFormed(saved) ==
  /\ saved # null
  /\ IsObject(saved[1])
  /\ IsNumber(Key(saved[1], "x"))
  /\ IsNumber(Key(saved[1], "y"))

\* the position state is a pair of numbers
IsPosition(p) == DOMAIN p = {"x", "y"}

\* C12: round trip: the record a step writes, loaded on the viewport it was
\* written on, gives the position that was written, whatever the default.
C12_PersistLoadRoundTrip ==
  [][\A f \in mounted :
       (storage'[f] # storage[f])
         => \A default \in {defaultPositionOf(g) : g \in Frames} :
              /\ Loadable(storage'[f], innerWidth', innerHeight')
              /\ LoadPosition(storage'[f], default, innerWidth', innerHeight') = position'[f]]_vars

\* C12 witness: a frame that was dragged away from its default position and
\* whose record loads as the place it is at
C12_Witness ==
  \E f \in mounted :
    /\ storage[f] # null
    /\ position[f] # defaultPositionOf(f)
    /\ LoadPosition(storage[f], defaultPositionOf(f), innerWidth, innerHeight) = position[f]

\* C13: a record written for (x, y) on a W x H viewport loads on a W2 x H2
\* viewport as (x * W2 / W, y * H2 / H).
C13_LoadIsProportional ==
  [][\A f \in mounted :
       (storage'[f] # storage[f])
         => \A v \in Viewports :
              Loadable(storage'[f], v[1], v[2])
                => LET loaded == LoadPosition(storage'[f], defaultPositionOf(f), v[1], v[2])
                   IN  /\ loaded.x * innerWidth' = position'[f].x * v[1]
                       /\ loaded.y * innerHeight' = position'[f].y * v[2]]_vars

\* C13 witness: a record written on the initial viewport and loaded on a wider
\* one, at a place further right than the pointer reaches
C13_Witness ==
  \E f \in mounted, p \in Points :
    /\ storage[f] = <<PersistedRecord(p.x, p.y, InitialViewport[1], InitialViewport[2])>>
    /\ innerWidth > InitialViewport[1]
    /\ position[f].x > InitialViewport[1]
    /\ position[f].x * InitialViewport[1] = p.x * innerWidth
    /\ position[f].y * InitialViewport[2] = p.y * innerHeight

\* C14: a mount that finds nothing, or a value that is not an object with a
\* numeric x and y, starts at the default position; the position is always a
\* pair of numbers.
C14_LoadFallsBackToDefault ==
  [][\A f \in mounted :
       Remount(f)
         => /\ IsPosition(position'[f])
            /\ ~WellFormed(storage[f]) => position'[f] = defaultPositionOf(f)]_vars

\* C15: a record with numeric x and y and without the percentage flag is loaded
\* as the pixel position (x, y).
C15_LegacyRecordIsAbsolute ==
  [][\A f \in mounted :
       (Remount(f) /\ WellFormed(storage[f]) /\ ~PercentageFlag(storage[f][1]))
         => /\ IsPosition(position'[f])
            /\ position'[f].x * storage[f][1].x[2] = storage[f][1].x[1]
            /\ position'[f].y * storage[f][1].y[2] = storage[f][1].y[1]]_vars

\* C15 witness: a frame mounted on a record of the earlier format, at the pixel
\* position the record names, which is not the default position
C15_Witness ==
  \E f \in mounted :
    /\ WellFormed(storage[f]) /\ ~PercentageFlag(storage[f][1])
    /\ IsPosition(position[f])
    /\ position[f] = [x |-> storage[f][1].x[1], y |-> storage[f][1].y[1]]
    /\ position[f] # defaultPositionOf(f)

\* C16: every record the component writes has percentage = true and fractions
\* 0 <= x <= 1 and 0 <= y <= 1.
C16_RecordIsFractionOfViewport ==
  \A f \in mounted :
    storage[f] # null
      => /\ storage[f][1].percentage
         /\ 0 <= storage[f][1].x[1] /\ storage[f][1].x[1] <= storage[f][1].x[2]
         /\ 0 <= storage[f][1].y[1] /\ storage[f][1].y[1] <= storage[f][1].y[2]

\* C17: after every pointer-up, touch-end or touch-cancel every frame is Idle:
\* startPointer is cleared and the dragging flag is false.
C17_ReleaseLeavesIdle ==
  [][EndEvent => \A f \in mounted : dragStart'[f] = null /\ ~isDragging'[f]]_vars

\* C17 witness: a frame that was grabbed inside its box and dragged away, Idle
\* again after the release
C17_Witness ==
  \E f \in mounted :
    /\ Idle(f)
    /\ pointerOffset[f].x # 0
    /\ position[f] # defaultPositionOf(f)

\* C18: a touch-cancel leads from a state to exactly the state a touch-end
\* leads to, and the frame is not put back: y stays, and x stays unless the
\* frame is anchored and snaps.
C18_CancelIsRelease ==
  [][\A last \in BOOLEAN :
       /\ TouchCancel(last) <=> TouchEnd(last)
       /\ TouchCancel(last)
            => \A f \in mounted :
                 /\ position'[f].y = position[f].y
                 /\ ~(anchored[f] /\ Dragging(f)) => position'[f] = position[f]]_vars

\* C18 witness: a frame that is not anchored was dragged by a finger, and after
\* the finger is gone it is Idle at the place it was dragged to
C18_Witness ==
  \E f \in mounted :
    /\ ~anchored[f] /\ ~touching /\ Idle(f)
    /\ storage[f] # null
    /\ position[f] = ClampedCandidate(f, pointer)
    /\ position[f] # defaultPositionOf(f)

C20_DragNeverClicks ==
  [][\A f \in mounted :
       (Dragging(f) /\ \E last \in BOOLEAN : ChildTouchEnd(f, last))
         => childEvent' # "invoked"]_vars

\* the value of v kept between 0 and max, and 0 when max is negative
Within(v, max) ==
  IF max < 0 THEN 0
  ELSE IF v < 0 THEN 0
  ELSE IF v > max THEN max
  ELSE v

\* C21: the position a drag move sets is the candidate (x, y) - pointerOffset
\* kept between 0 and innerWidth - offsetWidth (innerHeight - offsetHeight), and
\* 0 when the frame is wider (taller) than the viewport.
C21_ClampKeepsInsideViewport ==
  [][\A f \in mounted :
       (Dragging(f) /\ MoveEvent)
         => /\ position'[f].x = Within(pointer'.x - pointerOffset[f].x, innerWidth - offsetWidth)
            /\ position'[f].y = Within(pointer'.y - pointerOffset[f].y, innerHeight - offsetHeight)]_vars

\* C21 witness: a frame dragged on a viewport smaller than the frame sits at (0, 0)
C21_Witness ==
  \E f \in mounted :
    /\ Dragging(f)
    /\ innerWidth < offsetWidth /\ innerHeight < offsetHeight
    /\ position[f] = [x |-> 0, y |-> 0]

\* C22: an anchored frame that rests on side S, with its record written on the
\* current viewport, has anchor side S again after it is unmounted and mounted
\* with the same id.
C22_AnchorSurvivesRemount ==
  [][\A f \in mounted :
       (/\ anchored[f] /\ Idle(f)
        /\ position[f].x = RestingX(anchor[f], innerWidth)
        /\ storage[f] # null
        /\ ScalesTo(storage[f][1].x, innerWidth, position[f].x)
        /\ Remount(f))
         => anchor'[f] = anchor[f]]_vars

\* C23: the first pointer-move of a Pending session makes an anchored frame
\* Dragging whatever the displacement; a frame that is not anchored becomes
\* Dragging only when the displacement is greater than dragThreshold.
C23_AnchoredDragsAtOnce ==
  [][\A f \in mounted :
       (Pending(f) /\ MoveEvent)
         => (isDragging'[f] <=> (anchored[f] \/ Displacement(f, pointer') > dragThreshold))]_vars

\* C24: a pointer-down or touch-start on a frame that is Pending or Dragging
\* does not begin a new session: startPointer, pointerOffsetWithinFrame and the
\* drag state stay as they are.
C24_SessionsDoNotOverlap ==
  [][\A f \in mounted :
       (dragStart[f] # null /\ StartEvent(f))
         => /\ dragStart'[f] = dragStart[f]
            /\ pointerOffset'[f] = pointerOffset[f]
            /\ isDragging'[f] = isDragging[f]]_vars

\* C25: a resize while an anchored frame is Dragging changes neither the
\* position nor the persisted record, and the frame stays Dragging.
C25_ResizeIgnoredWhileDragging ==
  [][\A f \in mounted :
       (anchored[f] /\ Dragging(f) /\ WindowResized)
         => /\ position'[f] = position[f]
            /\ storage'[f] = storage[f]
            /\ isDragging'[f]]_vars

\* C28: a session in which no move exceeds the threshold leaves the frame as it
\* was: the press, every move after which the frame is still Pending, and the
\* release of a Pending frame change neither position, anchor side nor record.
C28_ClickLeavesFrame ==
  [][\A f \in mounted :
       (\/ (dragStart[f] = null /\ StartEvent(f))
        \/ (Pending(f) /\ ~isDragging'[f] /\ MoveEvent)
        \/ (Pending(f) /\ EndEvent))
         => /\ position'[f] = position[f]
            /\ anchor'[f] = anchor[f]
            /\ storage'[f] = storage[f]]_vars

\* C28 witness: an anchored frame that was pressed inside its box and released,
\* Idle at its default position with nothing written
C28_Witness ==
  \E f \in mounted :
    /\ anchored[f] /\ Idle(f)
    /\ pointerOffset[f].x # 0
    /\ position[f] = defaultPositionOf(f)
    /\ storage[f] = null

\* C29: after a drag-end or a resize an anchored frame that is Idle is at the
\* resting x of the anchor side held in state.
C29_SideMatchesRestingPlace ==
  [][\A f \in mounted :
       (anchored[f] /\ ((Dragging(f) /\ EndEvent) \/ (Idle(f) /\ WindowResized)))
         => position'[f].x = RestingX(anchor'[f], innerWidth')]_vars

\* C27: a touch-end whose touch list lacks the touch point of a session leaves
\* that session alone.  Two frames are in sessions begun by two fingers and one
\* finger is lifted while the other stays down: the lifted finger is the touch
\* point of at most one of the two sessions, so at least one frame keeps its
\* position, its session (startPointer, offset) and its drag state.
C27_MissingTouchPointIsNoOp ==
  [][(TouchEnd(FALSE) /\ \A f \in Frames : dragStart[f] # null)
       => \E f \in Frames :
            /\ position'[f] = position[f]
            /\ dragStart'[f] = dragStart[f]
            /\ pointerOffset'[f] = pointerOffset[f]
            /\ isDragging'[f] = isDragging[f]]_vars

\* C26: a mouse-down on the frame while the timer set at the end of a touch
\* gesture is pending (the 150 ms after the gesture) starts no session: the
\* frame stays Idle and no startPointer is recorded.
C26_MouseDownDebounced ==
  [][(touchTimeout /\ dragState = "idle" /\ FlagMouseDown)
       => (dragState' = "idle" /\ dragStart'[FlagFrame] = null)]_vars

\* C30: a touch session is never orphaned: while a session that a touch started
\* is Pending or Dragging nothing but a new press by the mouse sets the
\* touch-source flag to false.
C30_TouchSessionNotOrphaned ==
  [][(isTouchDevice /\ dragState # "idle" /\ ~isTouchDevice') => FlagMouseDown]_vars

\* C31: a resize changes nothing of a frame that is not anchored: its position
\* (neither clamped to the new viewport nor rescaled from the record), its drag
\* state, its session and its persisted record stay as they are.
C31_ResizeLeavesUnanchoredFrame ==
  [][\A f \in mounted :
       (~anchored[f] /\ WindowResized)
         => /\ position'[f] = position[f]
            /\ isDragging'[f] = isDragging[f]
            /\ dragStart'[f] = dragStart[f]
            /\ pointerOffset'[f] = pointerOffset[f]
            /\ anchor'[f] = anchor[f]
            /\ storage'[f] = storage[f]]_vars

\* C31 witness: a frame that is not anchored, dragged and then left outside a
\* viewport made smaller, its record still the one of the viewport it was
\* written on
C31_Witness ==
  \E f \in mounted :
    /\ ~anchored[f]
    /\ storage[f] # null
    /\ position[f].x > innerWidth - offsetWidth
    /\ ~ScalesTo(storage[f][1].x, innerWidth, position[f].x)

====
